---- MODULE Spec2Model ----
(***************************************************************************)
(* gtfsbeat: the poll loop (Run/Stop), the feed fetcher with its           *)
(* Last-Modified change detection (GetGtfsFeed) and the denormalizers      *)
(* (TransformVehicle, DenormalizeAlert, addTrip, addStop, ...) of          *)
(* beater/gtfsbeat.go.                                                     *)
(*                                                                         *)
(* Go pointers (to string, uint32, ...) are options: None is nil, Some(v)  *)
(* is a pointer to v.  A time.Time is a natural number of periods, with    *)
(* ZeroTime the zero value time.Time{}.                                    *)
(***************************************************************************)
EXTENDS Integers, Sequences, FiniteSets, TLC

\* ---------------------------------------------------------------- bounds
\* The wall clock runs from InitNow up to MaxTime; one Tick is one period.
MaxTime == 4
\* Longest decoded feed (number of entities) the upstream serves.
MaxFeedLen == 2
\* Most informed entities of an alert handed to DenormalizeAlert.
MaxInformed == 2

\* ------------------------------------------------------ program constants
\* time.Time{}: what http.ParseTime returns next to an error, and what
\* beat.Event.Timestamp holds when nobody sets it.
ZeroTime == 0
\* time.Now().UTC() at New.
InitNow == 2
\* resp.StatusCode != 200
StatusOK == 200
\* client := &http.Client{}: Timeout is left at its zero value, no timeout.
ClientTimeout == 0
\* time.NewTicker: the channel ticker.C has a buffer of one tick.
TickerCap == 1

\* ---------------------------------------------------------------- options
None == << >>
Some(v) == << v >>
IsNil(p) == p = None
Deref(p) == p[1]

\* ------------------------------------------------------------ stop table
\* bt.Stops as parseStops left it at New: one known stop.
MkStop(id, name, lat, long, wheelchair) ==
    [ID |-> id, LocationType |-> "", ParentStation |-> "", Code |-> "",
     Description |-> "", Name |-> name, Lat |-> lat, Long |-> long,
     Timezone |-> "", URL |-> "", WheelcharBoarding |-> wheelchair,
     ZoneID |-> ""]

StopIds == {"S1"}
Stops == [s \in StopIds |-> MkStop(s, "Main St", 29, -98, 1)]

\* ------------------------------------------------------- feed entity data
MkTrip(tripId, routeId, directionId, startDate, startTime, rel) ==
    [TripId |-> tripId, RouteId |-> routeId, DirectionId |-> directionId,
     StartDate |-> startDate, StartTime |-> startTime,
     ScheduleRelationship |-> rel]

MkVehicleDescriptor(id, label, plate) ==
    [Id |-> id, Label |-> label, LicensePlate |-> plate]

MkPosition(lat, long, bearing, odometer, speed) ==
    [Latitude |-> lat, Longitude |-> long, Bearing |-> bearing,
     Odometer |-> odometer, Speed |-> speed]

MkVehiclePosition(trip, vehicle, position, seq, stopId, status, cong, occ, ts) ==
    [Trip |-> trip, Vehicle |-> vehicle, Position |-> position,
     CurrentStopSequence |-> seq, StopId |-> stopId,
     CurrentStatus |-> status, CongestionLevel |-> cong,
     OccupancyStatus |-> occ, Timestamp |-> ts]

MkEntitySelector(agencyId, routeId, routeType, trip, stopId) ==
    [AgencyId |-> agencyId, RouteId |-> routeId, RouteType |-> routeType,
     Trip |-> trip, StopId |-> stopId]

MkAlert(activePeriod, informed, cause, effect, url, header, description) ==
    [ActivePeriod |-> activePeriod, InformedEntity |-> informed,
     Cause |-> cause, Effect |-> effect, Url |-> url,
     HeaderText |-> header, DescriptionText |-> description]

\* A FeedEntity carries exactly one of Vehicle, TripUpdate, Alert.
VehicleEntity(v) == [Vehicle |-> Some(v), TripUpdate |-> None, Alert |-> None]
AlertEntity(a) == [Vehicle |-> None, TripUpdate |-> None, Alert |-> Some(a)]

\* ------------------------------------------------------------ beat.Event
\* Fields is a map from (dotted) keys to values; a key that was never put
\* is not in its domain.
EmptyEvent == [Timestamp |-> ZeroTime, Id |-> None, Fields |-> << >>]

PutValue(e, key, val) ==
    [e EXCEPT !.Fields = [k \in (DOMAIN @) \cup {key} |->
                             IF k = key THEN val ELSE @[k]]]

SetID(e, id) == [e EXCEPT !.Id = Some(id)]

Has(e, key) == key \in DOMAIN e.Fields

addStringIfNotEmpty(key, val, e) ==
    IF Len(val) > 0 THEN PutValue(e, key, val) ELSE e

addStringIfNotNull(key, val, e) ==
    IF ~IsNil(val) THEN addStringIfNotEmpty(key, Deref(val), e) ELSE e

addUint32IfNotNull(key, val, e) ==
    IF ~IsNil(val) THEN PutValue(e, key, Deref(val)) ELSE e

addFloat32IfNotNull(key, val, e) ==
    IF ~IsNil(val) THEN PutValue(e, key, Deref(val)) ELSE e

addFloat64IfNotNull(key, val, e) ==
    IF ~IsNil(val) THEN PutValue(e, key, Deref(val)) ELSE e

\* fmt.Sprint("%f,%f", lat, long): Sprint does not format, the verbs stay.
addStop(stop, e) ==
    LET e1 == addStringIfNotEmpty("stop.id", stop.ID, e)
        e2 == addStringIfNotEmpty("stop.location_type", stop.LocationType, e1)
        e3 == addStringIfNotEmpty("stop.parent_station", stop.ParentStation, e2)
        e4 == addStringIfNotEmpty("stop.code", stop.Code, e3)
        e5 == addStringIfNotEmpty("stop.desc", stop.Description, e4)
        e6 == addStringIfNotEmpty("stop.name", stop.Name, e5)
        e7 == addStringIfNotEmpty("stop.timezone", stop.Timezone, e6)
        e8 == addStringIfNotEmpty("stop.url", stop.URL, e7)
        e9 == IF stop.Lat # 0
              THEN PutValue(e8, "stop.pos", <<"%f,%f", stop.Lat, stop.Long>>)
              ELSE e8
        e10 == PutValue(e9, "stop.wheelchair_boarding", stop.WheelcharBoarding)
        e11 == addStringIfNotEmpty("stop.zone_id", stop.ZoneID, e10)
    IN  addStringIfNotEmpty("stop.id", stop.ID, e11)

\* Enum getters of the generated schema: the value, or the schema's default
\* when the field is nil; String() is the display name.
GetScheduleRelationship(trip) ==
    IF IsNil(trip.ScheduleRelationship) THEN "SCHEDULED"
    ELSE Deref(trip.ScheduleRelationship)

GetCongestionLevel(vehicle) ==
    IF IsNil(vehicle.CongestionLevel) THEN "UNKNOWN_CONGESTION_LEVEL"
    ELSE Deref(vehicle.CongestionLevel)

GetOccupancyStatus(vehicle) ==
    IF IsNil(vehicle.OccupancyStatus) THEN "EMPTY"
    ELSE Deref(vehicle.OccupancyStatus)

GetCurrentStatus(vehicle) ==
    IF IsNil(vehicle.CurrentStatus) THEN "IN_TRANSIT_TO"
    ELSE Deref(vehicle.CurrentStatus)

GetCause(alert) ==
    IF IsNil(alert.Cause) THEN "UNKNOWN_CAUSE" ELSE Deref(alert.Cause)

GetEffect(alert) ==
    IF IsNil(alert.Effect) THEN "UNKNOWN_EFFECT" ELSE Deref(alert.Effect)

\* time.Parse("20060102 15:04:05", string(year)+string(month)+string(day)+
\* " "+startTime): string(int) is the character with that code point, not
\* the decimal digits, so the text never starts with a 4-digit year and the
\* parse fails for every date and start time.
ParseStartTime(trip) == None

\* trip is a pointer to a TripDescriptor.
addTrip(trip, e) ==
    IF IsNil(trip) THEN e
    ELSE LET t == Deref(trip)
             e1 == addStringIfNotNull("trip.id", t.TripId, e)
             e2 == addStringIfNotNull("trip.route_id", t.RouteId, e1)
             e3 == addUint32IfNotNull("trip.direction_id", t.DirectionId, e2)
             e4 == PutValue(e3, "trip.state", GetScheduleRelationship(t))
             e5 == addStringIfNotNull("trip.id", t.TripId, e4)
         IN  IF ~IsNil(t.StartTime) /\ ~IsNil(ParseStartTime(t))
             THEN PutValue(e5, "trip.start_time", Deref(ParseStartTime(t)))
             ELSE e5

addVehicleDescriptors(vd, e) ==
    IF IsNil(vd) THEN e
    ELSE LET d == Deref(vd)
             e1 == addStringIfNotNull("vehicle.id", d.Id, e)
             e2 == addStringIfNotNull("vehicle.label", d.Label, e1)
         IN  addStringIfNotNull("vehicle.license_plate", d.LicensePlate, e2)

\* ------------------------------------------------------ DenormalizeAlert
\* h := fnv.New32a(); h.Write(text); h.Sum32(), for the description texts
\* the model's alerts carry.
DescriptionTexts == {"Detour", "Closed"}
Fnv32a == [t \in DescriptionTexts |->
              IF t = "Detour" THEN 1684415964 ELSE 838978277]

\* string(h.Sum32()): the conversion of an integer to a string yields the
\* character with that code point, and the replacement character when the
\* integer is no valid code point.
MaxRune == 1114111
RuneString(n) ==
    IF n > MaxRune THEN "<U+FFFD>" ELSE "<U+" \o ToString(n) \o ">"

\* The first translation; every TranslatedString of the model carries one.
FirstTranslation(ts) == Deref(ts)[1]

TimeRanges(alert) ==
    [i \in 1..Len(alert.ActivePeriod) |->
        [Start |-> alert.ActivePeriod[i].Start,
         End |-> alert.ActivePeriod[i].End]]

AlertEventID(alert, entity) ==
    LET id1 == IF ~IsNil(entity.AgencyId) THEN Deref(entity.AgencyId) ELSE ""
        id2 == IF ~IsNil(entity.RouteId) THEN id1 \o Deref(entity.RouteId)
               ELSE id1
        id3 == IF ~IsNil(entity.StopId) THEN id2 \o Deref(entity.StopId)
               ELSE id2
    IN  IF ~IsNil(alert.DescriptionText)
        THEN id3 \o RuneString(
                       Fnv32a[FirstTranslation(alert.DescriptionText).Text])
        ELSE id3

\* The values lines 259-261 hand to addStringIfNotNull for route_id,
\* route_type and stop.
InformedRouteId(entity) == entity.AgencyId
InformedRouteType(entity) == entity.AgencyId
InformedStop(entity) == entity.AgencyId

\* The body of the loop over alert.GetInformedEntity().
AlertEvent(alert, entity) ==
    LET timeRange == TimeRanges(alert)
        e0 == SetID(EmptyEvent, AlertEventID(alert, entity))
        e1 == PutValue(e0, "alert_cause", GetCause(alert))
        e2 == PutValue(e1, "alert_effect", GetEffect(alert))
        e3 == IF Len(timeRange) > 0
              THEN PutValue(e2, "active_period", timeRange) ELSE e2
        e4 == IF ~IsNil(alert.Url)
              THEN PutValue(e3, "url", FirstTranslation(alert.Url)) ELSE e3
        e5 == IF ~IsNil(alert.DescriptionText)
              THEN PutValue(e4, "description",
                            FirstTranslation(alert.DescriptionText))
              ELSE e4
        e6 == IF ~IsNil(alert.HeaderText)
              THEN PutValue(e5, "header", FirstTranslation(alert.HeaderText))
              ELSE e5
        e7 == addStringIfNotNull("agency_id", entity.AgencyId, e6)
        e8 == addStringIfNotNull("route_id", InformedRouteId(entity), e7)
        e9 == addStringIfNotNull("route_type", InformedRouteType(entity), e8)
        e10 == addStringIfNotNull("stop", InformedStop(entity), e9)
    IN  addTrip(entity.Trip, e10)

DenormalizeAlert(alert) ==
    [i \in 1..Len(alert.InformedEntity) |->
        AlertEvent(alert, alert.InformedEntity[i])]

\* ------------------------------------------------------ TransformVehicle
\* logp.Info("seq %d", *vehicle.CurrentStopSequence) dereferences the
\* pointer whenever StopId is set: a nil pointer dereference when the
\* vehicle has a stop id and no current stop sequence.
TransformVehiclePanics(vehicle) ==
    ~IsNil(vehicle.StopId) /\ IsNil(vehicle.CurrentStopSequence)

\* event.Timestamp is assigned only under vehicle.Timestamp != nil.
VehicleEventTimestamp(vehicle) ==
    IF ~IsNil(vehicle.Timestamp) THEN Deref(vehicle.Timestamp) ELSE ZeroTime

addPosition(position, e) ==
    IF IsNil(position) THEN e
    ELSE LET p == Deref(position)
             e1 == IF ~IsNil(p.Latitude) /\ ~IsNil(p.Longitude)
                   THEN PutValue(e, "pos",
                           <<Deref(p.Latitude), Deref(p.Longitude)>>)
                   ELSE e
             e2 == addFloat32IfNotNull("bearing", p.Bearing, e1)
             e3 == addFloat64IfNotNull("odometer_meters", p.Odometer, e2)
             e4 == addFloat32IfNotNull("speed_meters_per_sec", p.Speed, e3)
             e5 == IF ~IsNil(p.Speed)
                   THEN PutValue(e4, "speed_mph",
                           <<Deref(p.Speed), "*", "2.2369362921">>)
                   ELSE e4
         IN  addFloat32IfNotNull("speed_meters_per_sec", p.Speed, e5)

addVehicleStop(vehicle, e) ==
    IF IsNil(vehicle.StopId) THEN e
    ELSE LET e1 == PutValue(e, "stop.id", Deref(vehicle.StopId))
         IN  IF Deref(vehicle.StopId) \in DOMAIN Stops
             THEN addStop(Stops[Deref(vehicle.StopId)], e1)
             ELSE e1

\* The event TransformVehicle returns when it does not panic.
TransformVehicle(vehicle) ==
    LET e1 == PutValue(EmptyEvent, "congestion", GetCongestionLevel(vehicle))
        e2 == PutValue(e1, "occupancy", GetOccupancyStatus(vehicle))
        e3 == PutValue(e2, "stop_status", GetCurrentStatus(vehicle))
        e4 == addTrip(vehicle.Trip, e3)
        e5 == addVehicleDescriptors(vehicle.Vehicle, e4)
        e6 == addPosition(vehicle.Position, e5)
        e7 == addUint32IfNotNull("stop_seq", vehicle.CurrentStopSequence, e6)
        e8 == [e7 EXCEPT !.Timestamp = VehicleEventTimestamp(vehicle)]
        e9 == addVehicleStop(vehicle, e8)
    IN  PutValue(e9, "stop_status", GetCurrentStatus(vehicle))

\* ------------------------------------------------------ upstream inputs
SampleTrip == Some(MkTrip(Some("T1"), Some("R1"), Some(0), Some("20180102"),
                          Some("25:10:00"), None))

\* Vehicle positions with different subsets of the optional fields.
VehicleFull ==
    MkVehiclePosition(SampleTrip,
        Some(MkVehicleDescriptor(Some("V1"), Some("bus 1"), None)),
        Some(MkPosition(Some(29), Some(-98), Some(90), None, Some(10))),
        Some(3), Some("S1"), Some("STOPPED_AT"), None, None, Some(1))
VehicleBare ==
    MkVehiclePosition(None, None, None, None, None, None, None, None, None)
VehicleNoTimestamp ==
    MkVehiclePosition(SampleTrip, None,
        Some(MkPosition(None, None, None, None, Some(10))),
        Some(1), Some("S9"), None, None, None, None)
VehicleStopNoSeq ==
    MkVehiclePosition(None, None, None, None, Some("S1"), None, None, None,
                      Some(1))
SampleVehicles == {VehicleFull, VehicleBare, VehicleNoTimestamp,
                   VehicleStopNoSeq}

Translated(text) == Some(<< [Text |-> text, Language |-> "en"] >>)

\* One alert for two routes, with one active period.
AlertTwoRoutes ==
    MkAlert(<< [Start |-> Some(1), End |-> Some(4)] >>,
            << MkEntitySelector(None, Some("R1"), None, None, None),
               MkEntitySelector(None, Some("R2"), None, None, None) >>,
            Some("CONSTRUCTION"), Some("DETOUR"), None,
            Translated("Route change"), Translated("Detour"))

SampleEntities ==
    {VehicleEntity(v) : v \in SampleVehicles}
       \cup {AlertEntity(AlertTwoRoutes)}

SeqsUpTo(S, n) == UNION {[1..k -> S] : k \in 0..n}

Feeds == SeqsUpTo(SampleEntities, MaxFeedLen)

\* Response bodies: a serialized FeedMessage, or bytes that are none.
PbBody(feed) == [pb |-> TRUE, feed |-> feed]
JunkBody == [pb |-> FALSE, feed |-> << >>]
Bodies == {PbBody(f) : f \in Feeds} \cup {JunkBody}

\* Last-Modified header values: "" when the server omits the header, a text
\* that is no HTTP date, or an HTTP date around the stored time.
NoHeader == [date |-> FALSE, time |-> ZeroTime, text |-> ""]
GarbageHeader == [date |-> FALSE, time |-> ZeroTime, text |-> "yesterday"]
DateHeader(t) == [date |-> TRUE, time |-> t, text |-> "date"]
LastModifiedTimes == {InitNow - 1, InitNow, InitNow + 1}
Headers == {NoHeader, GarbageHeader} \cup {DateHeader(t) : t \in LastModifiedTimes}

\* What client.Do and ioutil.ReadAll hand back: an error, or a response.
TransportError ==
    [failed |-> TRUE, StatusCode |-> 0, LastModified |-> NoHeader,
     Body |-> JunkBody]
HttpResponse(status, header, body) ==
    [failed |-> FALSE, StatusCode |-> status, LastModified |-> header,
     Body |-> body]
Responses ==
    {TransportError, HttpResponse(500, NoHeader, JunkBody)}
       \cup {HttpResponse(StatusOK, h, b) : h \in Headers, b \in Bodies}

\* ----------------------------------------------------------- GetGtfsFeed
\* http.ParseTime: the time and a nil error, or time.Time{} and an error.
ParseTime(header) ==
    IF header.date THEN [t |-> header.time, err |-> FALSE]
    ELSE [t |-> ZeroTime, err |-> TRUE]

\* proto.Unmarshal(body, &feed)
Unmarshal(body) ==
    IF body.pb THEN [entities |-> body.feed, err |-> FALSE]
    ELSE [entities |-> << >>, err |-> TRUE]

\* lastModified.Before(bt.lastUpdated)
Before(t, u) == t < u

\* What the comparison of lines 415-419 would run under with err == nil.
ChangeDetectionRunsOnSuccess(parseErr) == ~parseErr

\* The condition under which the block of lines 415-419 runs: err != nil,
\* err being the error of http.ParseTime.
ChangeDetectionRuns(parseErr) == parseErr

\* The result of one call: the returned entities (None is a nil slice) and
\* error, the return statement taken, and bt.lastUpdated after the call.
GetGtfsFeed(resp, lastUpdated) ==
    LET Ret(how, entities, err, lu) ==
            [how |-> how, entities |-> entities, err |-> err,
             lastUpdated |-> lu]
        Decode(lu) ==
            LET u == Unmarshal(resp.Body)
            IN  IF u.err THEN Ret("decode_error", None, TRUE, lu)
                ELSE Ret("decoded",
                         IF Len(u.entities) = 0 THEN None
                         ELSE Some(u.entities),
                         FALSE, lu)
        pt == ParseTime(resp.LastModified)
    IN  IF resp.failed THEN Ret("transport_error", None, TRUE, lastUpdated)
        ELSE IF resp.StatusCode # StatusOK
        THEN Ret("status_error", None, TRUE, lastUpdated)
        ELSE IF resp.LastModified.text # "" /\ ChangeDetectionRuns(pt.err)
        THEN IF Before(pt.t, lastUpdated)
             THEN Ret("unchanged", None, FALSE, lastUpdated)
             ELSE Decode(pt.t)
        ELSE Decode(lastUpdated)

\* ------------------------------------------------------------------ state
VARIABLES
    now,          \* the wall clock, in periods
    lastUpdated,  \* bt.lastUpdated
    pc,           \* where Run is: "Start", "Idle" (in the select),
                  \* "Processing" (a cycle in progress), "Returned",
                  \* "Panicked"
    runResult,    \* what Run returned: "none" so far, "nil" or "error"
    done,         \* bt.done is closed
    clientClosed, \* bt.client.Close() was called
    tickerC,      \* the ticks buffered in ticker.C
    hung,         \* the upstream will never answer the GET in flight
    events,       \* Run's local events, of the cycle in progress or of
                  \* the one that just ended
    published,    \* number of records handed to bt.client.PublishAll
    lastCall,     \* history: the GetGtfsFeed call of that cycle, None
                  \* before it returns
    cycleTick,    \* history: the tick the latest cycle was started by
    failedCycles, \* history: number of cycles whose GetGtfsFeed failed
    alertIn,      \* the alert DenormalizeAlert is called on, if any
    alertOut      \* the events it returned, None before it returns

loopVars == <<now, lastUpdated, pc, runResult, done, clientClosed, tickerC,
              hung, events, published, lastCall, cycleTick, failedCycles>>
alertVars == <<alertIn, alertOut>>
vars == <<now, lastUpdated, pc, runResult, done, clientClosed, tickerC,
          hung, events, published, lastCall, cycleTick, failedCycles,
          alertIn, alertOut>>

NoTick == [at |-> ZeroTime, firedWhile |-> "never"]

\* New: lastUpdated is time.Now().UTC(), done is open.
Init ==
    /\ now = InitNow
    /\ lastUpdated = InitNow
    /\ pc = "Start"
    /\ runResult = "none"
    /\ done = FALSE
    /\ clientClosed = FALSE
    /\ tickerC = << >>
    /\ hung = FALSE
    /\ events = << >>
    /\ published = 0
    /\ lastCall = None
    /\ cycleTick = NoTick
    /\ failedCycles = 0
    /\ alertIn = None
    /\ alertOut = None

\* ---------------------------------------------------------------- Run
\* b.Publisher.Connect() and time.NewTicker; a failed Connect returns err.
RunConnect ==
    /\ pc = "Start"
    /\ \E ok \in BOOLEAN :
          IF ok THEN pc' = "Idle" /\ runResult' = runResult
          ELSE pc' = "Returned" /\ runResult' = "error"
    /\ UNCHANGED <<now, lastUpdated, done, clientClosed, tickerC, hung,
                   events, published, lastCall, cycleTick, failedCycles>>
    /\ UNCHANGED alertVars

\* The runtime's ticker: one period passes; the tick is sent to ticker.C
\* without blocking and is dropped when the buffer is full.
TickerSendQueued(c, tick) == Append(c, tick)

TickerSend(c, tick) == IF Len(c) < TickerCap THEN Append(c, tick) ELSE c

Tick ==
    /\ pc \in {"Idle", "Processing"}
    /\ now < MaxTime
    /\ now' = now + 1
    /\ tickerC' = TickerSend(tickerC, [at |-> now + 1, firedWhile |-> pc])
    /\ UNCHANGED <<lastUpdated, pc, runResult, done, clientClosed, hung,
                   events, published, lastCall, cycleTick, failedCycles>>
    /\ UNCHANGED alertVars

\* Stop: bt.client.Close(); close(bt.done).
Stop ==
    /\ pc \in {"Idle", "Processing"}
    /\ ~done
    /\ clientClosed' = TRUE
    /\ done' = TRUE
    /\ UNCHANGED <<now, lastUpdated, pc, runResult, tickerC, hung, events,
                   published, lastCall, cycleTick, failedCycles>>
    /\ UNCHANGED alertVars

\* select, case <-bt.done: return nil.
RunSelectDone ==
    /\ pc = "Idle"
    /\ done
    /\ pc' = "Returned"
    /\ runResult' = "nil"
    /\ UNCHANGED <<now, lastUpdated, done, clientClosed, tickerC, hung,
                   events, published, lastCall, cycleTick, failedCycles>>
    /\ UNCHANGED alertVars

\* select, case <-ticker.C: the cycle starts and GetGtfsFeed sends its GET.
\* When bt.done is closed as well the select takes either ready case.
RunSelectTick ==
    /\ pc = "Idle"
    /\ Len(tickerC) > 0
    /\ cycleTick' = Head(tickerC)
    /\ tickerC' = Tail(tickerC)
    /\ pc' = "Processing"
    /\ hung' = FALSE
    /\ events' = << >>
    /\ lastCall' = None
    /\ UNCHANGED <<now, lastUpdated, runResult, done, clientClosed,
                   published, failedCycles>>
    /\ UNCHANGED alertVars

\* The upstream accepts the request and never answers.
UpstreamHangs ==
    /\ pc = "Processing"
    /\ ~hung
    /\ hung' = TRUE
    /\ UNCHANGED <<now, lastUpdated, pc, runResult, done, clientClosed,
                   tickerC, events, published, lastCall, cycleTick,
                   failedCycles>>
    /\ UNCHANGED alertVars

\* client.Do returns: with a response only when the upstream answers; with
\* an error when the connection fails, and once the client's Timeout has
\* passed when the client has one.
DoReturns(resp) ==
    IF resp.failed THEN ~hung \/ ClientTimeout > 0 ELSE ~hung

\* The vehicle entities of the feed, in feed order (entity.Vehicle != nil).
VehiclesOf(entities) ==
    SelectSeq(entities, LAMBDA entity : ~IsNil(entity.Vehicle))

\* Run leaving the loop on an error of GetGtfsFeed.
AfterFetchErrorReturn == "Returned"

\* Where Run goes after a cycle whose GetGtfsFeed returned err: logp.Error
\* and on to the next select.
AfterFetchError == "Idle"

\* The rest of a cycle once GetGtfsFeed has returned ret: the events Run
\* collects, whether a TransformVehicle call panicked, and where Run goes.
RunCycle(ret) ==
    LET vehicles == IF ret.err \/ IsNil(ret.entities) THEN << >>
                    ELSE VehiclesOf(Deref(ret.entities))
        bad == {i \in 1..Len(vehicles) :
                   TransformVehiclePanics(Deref(vehicles[i].Vehicle))}
        n == IF bad = {} THEN Len(vehicles)
             ELSE (CHOOSE i \in bad : \A j \in bad : i <= j) - 1
    IN  [events |-> [i \in 1..n |->
                        TransformVehicle(Deref(vehicles[i].Vehicle))],
         panicked |-> bad # {},
         pc |-> IF bad # {} THEN "Panicked"
                ELSE IF ret.err THEN AfterFetchError ELSE "Idle"]

\* One cycle from the answer of the upstream on: GetGtfsFeed, the
\* transformation of the vehicle entities, PublishAll.
Cycle(resp) ==
    /\ pc = "Processing"
    /\ DoReturns(resp)
    /\ LET ret == GetGtfsFeed(resp, lastUpdated)
           run == RunCycle(ret)
       IN  /\ lastUpdated' = ret.lastUpdated
           /\ events' = run.events
           /\ published' = IF ~run.panicked /\ Len(run.events) > 0
                           THEN published + Len(run.events) ELSE published
           /\ pc' = run.pc
           /\ failedCycles' = IF ret.err THEN failedCycles + 1
                              ELSE failedCycles
           /\ lastCall' = Some([resp |-> resp, before |-> lastUpdated,
                                at |-> now, ret |-> ret])
    /\ hung' = FALSE
    /\ UNCHANGED <<now, runResult, done, clientClosed, tickerC, cycleTick>>
    /\ UNCHANGED alertVars

Next ==
    \/ RunConnect
    \/ Tick
    \/ Stop
    \/ RunSelectDone
    \/ RunSelectTick
    \/ UpstreamHangs
    \/ \E resp \in Responses : Cycle(resp)

Spec == Init /\ [][Next]_vars

\* The scheduling of the program: the goroutine of Run is not starved, and
\* an upstream that answers is answered to.
FairSpec ==
    /\ Spec
    /\ WF_vars(RunConnect)
    /\ WF_vars(RunSelectDone \/ RunSelectTick)
    /\ WF_vars(\E resp \in Responses : Cycle(resp))

TypeOK ==
    /\ now \in InitNow..MaxTime
    /\ pc \in {"Start", "Idle", "Processing", "Returned", "Panicked"}
    /\ runResult \in {"none", "nil", "error"}
    /\ published \in Nat
    /\ failedCycles \in Nat

\* --------------------------------- DenormalizeAlert, called on its own
Selectors ==
    {MkEntitySelector(a, r, None, t, st) :
        a \in {None, Some("A1")}, r \in {None, Some("R1"), Some("R2")},
        t \in {None, SampleTrip}, st \in {None, Some("S1")}}

Alerts ==
    {MkAlert(<< [Start |-> Some(1), End |-> Some(4)] >>, inf,
             Some("CONSTRUCTION"), Some("DETOUR"), None, None, d) :
        inf \in SeqsUpTo(Selectors, MaxInformed),
        d \in {None, Translated("Closed")}}

InitAlert ==
    /\ alertIn \in {Some(a) : a \in Alerts}
    /\ alertOut = None
    /\ now = InitNow
    /\ lastUpdated = InitNow
    /\ pc = "Start"
    /\ runResult = "none"
    /\ done = FALSE
    /\ clientClosed = FALSE
    /\ tickerC = << >>
    /\ hung = FALSE
    /\ events = << >>
    /\ published = 0
    /\ lastCall = None
    /\ cycleTick = NoTick
    /\ failedCycles = 0

CallDenormalizeAlert ==
    /\ alertOut = None
    /\ alertOut' = Some(DenormalizeAlert(Deref(alertIn)))
    /\ UNCHANGED alertIn
    /\ UNCHANGED loopVars

NextAlert == CallDenormalizeAlert

SpecAlert == InitAlert /\ [][NextAlert]_vars

\* ================================================================ claims
\* The GetGtfsFeed call of the latest cycle, once it has returned.
Called == ~IsNil(lastCall)
Call == Deref(lastCall)
\* It received a 200 response with a Last-Modified header that parses.
CallHasDate ==
    /\ Called
    /\ ~Call.resp.failed
    /\ Call.resp.StatusCode = StatusOK
    /\ Call.resp.LastModified.date
CallT == Call.resp.LastModified.time
CallFeed == Call.resp.Body.feed

\* C1: a 200 response with a parseable Last-Modified time T, stored time L:
\* T <= L reports "unchanged" (no entities, no error) and leaves
\* bt.lastUpdated at L; T > L returns the decoded entities and sets
\* bt.lastUpdated to T.
C1_LastModifiedDecides ==
    CallHasDate =>
       /\ CallT <= Call.before =>
             /\ Call.ret.how = "unchanged"
             /\ IsNil(Call.ret.entities)
             /\ ~Call.ret.err
             /\ lastUpdated = Call.before
       /\ CallT > Call.before =>
             /\ lastUpdated = CallT
             /\ Call.resp.Body.pb /\ Len(CallFeed) > 0 =>
                   Call.ret.entities = Some(CallFeed)

\* C2: bt.lastUpdated changes only in a cycle whose fetch fully succeeds
\* (200, the body decodes) with a Last-Modified time later than the stored
\* value; a call that ends in an error or in "unchanged" leaves it as it
\* was before the call.
C2_LastUpdatedFrame ==
    /\ [](Called /\ (Call.ret.err \/ Call.ret.how = "unchanged")
             => lastUpdated = Call.before)
    /\ [][lastUpdated' # lastUpdated =>
             /\ pc = "Processing"
             /\ ~IsNil(lastCall')
             /\ Deref(lastCall').ret.how = "decoded"
             /\ Deref(lastCall').resp.LastModified.date
             /\ Deref(lastCall').resp.LastModified.time > lastUpdated
             /\ lastUpdated' = Deref(lastCall').resp.LastModified.time]_vars

\* A call that failed to decode a body served with a Last-Modified time
\* later than the stored one, and left bt.lastUpdated alone.
C2_Witness ==
    /\ CallHasDate
    /\ Call.ret.how = "decode_error"
    /\ CallT > Call.before
    /\ lastUpdated = Call.before

\* C3: a cycle whose GetGtfsFeed returns an error publishes nothing, does
\* not make Run return and leaves the loop Idle with the poll state as it
\* was, so that a later tick is processed like any other.
C3_FailedCycleIsSkipped ==
    [][(pc = "Processing" /\ pc' # "Processing" /\ Deref(lastCall').ret.err)
         => /\ pc' = "Idle"
            /\ runResult' = "none"
            /\ published' = published
            /\ events' = << >>
            /\ lastUpdated' = lastUpdated
            /\ tickerC' = tickerC
            /\ done' = done]_vars

\* After a failed cycle, a later cycle fetched a feed and published its
\* records.
C3_Witness ==
    /\ failedCycles >= 1
    /\ pc = "Idle"
    /\ Called /\ Call.ret.how = "decoded"
    /\ Len(events) > 0
    /\ published >= Len(events)

C5_NoCycleAfterStop ==
    [][/\ (pc' = "Returned" /\ runResult' = "nil") => (pc = "Idle" /\ done)
       /\ done => ~(pc = "Idle" /\ pc' = "Processing")]_vars

\* C6: every cycle that enters Processing leaves it again, also when the
\* upstream never answers.
C6_ProcessingEnds == (pc = "Processing") ~> (pc # "Processing")

\* The alert records among events, and the informed entities of the
\* alerts of a feed.
AlertRecords(evs) == SelectSeq(evs, LAMBDA e : Has(e, "alert_cause"))
RECURSIVE InformedCount(_)
InformedCount(feed) ==
    IF Len(feed) = 0 THEN 0
    ELSE (IF IsNil(Head(feed).Alert) THEN 0
          ELSE Len(Deref(Head(feed).Alert).InformedEntity))
         + InformedCount(Tail(feed))

\* C7: a cycle whose decoded feed holds alerts forwards one alert record
\* per informed entity to the sink.
C7_AlertsPublished ==
    (Called /\ Call.ret.how = "decoded" /\ pc = "Idle")
        => Len(AlertRecords(events)) = InformedCount(CallFeed)

\* The value of an optional string as addStringIfNotNull puts it: present
\* when the pointer is set and the string is not empty.
Carries(p) == ~IsNil(p) /\ Len(Deref(p)) > 0
FieldIs(e, key, p) ==
    IF Carries(p) THEN Has(e, key) /\ e.Fields[key] = Deref(p)
    ELSE ~Has(e, key)

\* C8: DenormalizeAlert returns one record per informed entity, and the
\* i-th record carries the agency id, route id and stop id of the i-th
\* informed entity (each absent when the entity does not carry it).
C8_InformedFieldsPerEntity ==
    ~IsNil(alertOut) =>
        LET out == Deref(alertOut)
            inf == Deref(alertIn).InformedEntity
        IN  /\ Len(out) = Len(inf)
            /\ \A i \in 1..Len(inf) :
                  /\ FieldIs(out[i], "agency_id", inf[i].AgencyId)
                  /\ FieldIs(out[i], "route_id", inf[i].RouteId)
                  /\ FieldIs(out[i], "stop", inf[i].StopId)

\* C9: TransformVehicle does not panic whatever optional fields are
\* absent, so every vehicle entity of a decoded feed is transformed.
C9_TransformNeverPanics ==
    /\ pc # "Panicked"
    /\ (Called /\ Call.ret.how = "decoded")
          => Len(events) = Len(VehiclesOf(CallFeed))

\* C10: every vehicle record carries the vehicle's feed timestamp, or the
\* processing time when the vehicle has none; never the zero time.
C10_RecordsCarryTimestamp ==
    Called =>
       \A i \in 1..Len(events) :
          LET v == Deref(VehiclesOf(CallFeed)[i].Vehicle)
          IN  /\ events[i].Timestamp # ZeroTime
              /\ events[i].Timestamp =
                    (IF ~IsNil(v.Timestamp) THEN Deref(v.Timestamp)
                     ELSE Call.at)

====
